---- MODULE Spec2Model ----
(***************************************************************************)
(* Model of src/payments/robokassa.py (RobokassaConfig, RobokassaPayment,  *)
(* RobokassaNotification; specification Spec) and of                       *)
(* src/handlers/admin_handlers.py (AdminPanel, AdminHandlers;              *)
(* specification AdminSpec).                                               *)
(*                                                                         *)
(* Python str values are sequences of one-character strings, so that       *)
(* formatting, joining, sorting, lower-casing and URL-encoding are really  *)
(* computed.  None is the sentinel NoneValue.  A call's outcome is a       *)
(* record [raised, value]: raised is "none" or the name of the exception   *)
(* that propagates to the caller.                                          *)
(***************************************************************************)
EXTENDS Integers, Sequences, FiniteSets, TLC

(* ------------------------------------------------------------------ *)
(* Characters and strings                                             *)
(* ------------------------------------------------------------------ *)

\* Printable ASCII, Ascii[i] has code point i + 31 (the double quote, the
\* backslash and the backtick, which no input of the model contains, are held by placeholders).
Ascii ==
    << " ", "!", "<dquote>", "#", "$", "%", "&", "'", "(", ")", "*", "+", ",", "-", ".",
       "/", "0", "1", "2", "3", "4", "5", "6", "7", "8", "9", ":", ";", "<", "=",
       ">", "?", "@", "A", "B", "C", "D", "E", "F", "G", "H", "I", "J", "K", "L",
       "M", "N", "O", "P", "Q", "R", "S", "T", "U", "V", "W", "X", "Y", "Z", "[",
       "<backslash>", "]", "^", "_", "<backtick>", "a", "b", "c", "d", "e", "f", "g", "h", "i", "j",
       "k", "l", "m", "n", "o", "p", "q", "r", "s", "t", "u", "v", "w", "x", "y",
       "z", "{", "|", "}", "~" >>

Chars == {Ascii[i] : i \in DOMAIN Ascii}

\* ord(c)
CharCode == [c \in Chars |-> 31 + (CHOOSE i \in DOMAIN Ascii : Ascii[i] = c)]

\* chr(n)
CodeChar(n) == Ascii[n - 31]

HexLower == <<"0", "1", "2", "3", "4", "5", "6", "7", "8", "9",
              "a", "b", "c", "d", "e", "f">>

HexUpper == <<"0", "1", "2", "3", "4", "5", "6", "7", "8", "9",
              "A", "B", "C", "D", "E", "F">>

Digits == <<"0", "1", "2", "3", "4", "5", "6", "7", "8", "9">>

\* None
NoneValue == <<"<None>">>

IsStr(v) == v # NoneValue

\* str(None) = "None", str(s) = s
PyStr(v) == IF v = NoneValue THEN <<"N", "o", "n", "e">> ELSE v

\* Python truthiness of an Optional[str]: None and "" are falsy
Truthy(v) == v # NoneValue /\ v # <<>>

\* str.lower() of one character
LowerChar(c) ==
    IF CharCode[c] >= 65 /\ CharCode[c] <= 90 THEN CodeChar(CharCode[c] + 32) ELSE c

\* str.upper() of one character
UpperChar(c) ==
    IF CharCode[c] >= 97 /\ CharCode[c] <= 122 THEN CodeChar(CharCode[c] - 32) ELSE c

\* str.lower()
Lower(s) == [i \in 1..Len(s) |-> LowerChar(s[i])]

\* str.upper()
Upper(s) == [i \in 1..Len(s) |-> UpperChar(s[i])]

\* a < b for str: ordinal comparison, a proper prefix sorts first
StrLess(a, b) ==
    \E i \in 1..(Len(b)) :
        /\ i <= Len(a) + 1
        /\ \A j \in 1..(i - 1) : a[j] = b[j]
        /\ \/ i = Len(a) + 1
           \/ i <= Len(a) /\ CharCode[a[i]] < CharCode[b[i]]

\* "".join(parts[lo..hi]), halving the range
RECURSIVE ConcatRange(_, _, _)
ConcatRange(parts, lo, hi) ==
    IF lo > hi THEN <<>>
    ELSE IF lo = hi THEN parts[lo]
    ELSE ConcatRange(parts, lo, (lo + hi) \div 2)
         \o ConcatRange(parts, ((lo + hi) \div 2) + 1, hi)

\* "".join(parts)
Concat(parts) == ConcatRange(parts, 1, Len(parts))

\* sep.join(parts)
RECURSIVE Join(_, _)
Join(sep, parts) ==
    IF parts = <<>> THEN <<>>
    ELSE IF Len(parts) = 1 THEN parts[1]
    ELSE parts[1] \o sep \o Join(sep, Tail(parts))

\* str(n) for a natural number
RECURSIVE NatToStr(_)
NatToStr(n) ==
    IF n < 10 THEN <<Digits[n + 1]>>
    ELSE NatToStr(n \div 10) \o <<Digits[(n % 10) + 1]>>

(* ------------------------------------------------------------------ *)
(* Amounts                                                            *)
(* ------------------------------------------------------------------ *)

\* A Decimal with at most three fractional digits: its sign (0 or 1, as in
\* Decimal.as_tuple(), so that -0.00 is a value of its own) and its magnitude
\* in thousandths.
Dec(sign, mills) == [type |-> "Decimal", sign |-> sign, mills |-> mills]
\* amount = None
NoneAmount == [type |-> "NoneType", sign |-> 0, mills |-> 0]
\* amount passed as a str that is no number
StrAmount == [type |-> "str", sign |-> 0, mills |-> 0]

\* f"{amount:.2f}": two fractional digits, ROUND_HALF_EVEN, the sign kept
\* even when the value rounds to zero; NoneType and str reject the format.
FormatAmount(amount) ==
    IF amount.type = "NoneType" THEN [raised |-> "TypeError", value |-> <<>>]
    ELSE IF amount.type = "str" THEN [raised |-> "ValueError", value |-> <<>>]
    ELSE
      LET neg == amount.sign = 1
          q == amount.mills \div 10
          r == amount.mills % 10
          cents == IF r > 5 \/ (r = 5 /\ q % 2 = 1) THEN q + 1 ELSE q
          frac == cents % 100
      IN [raised |-> "none",
          value |-> (IF neg THEN <<"-">> ELSE <<>>)
                    \o NatToStr(cents \div 100) \o <<".">>
                    \o <<Digits[(frac \div 10) + 1], Digits[(frac % 10) + 1]>>]

(* ------------------------------------------------------------------ *)
(* dict values: a sequence of <<key, value>> pairs with distinct keys, *)
(* in insertion order                                                  *)
(* ------------------------------------------------------------------ *)

\* extra_params = None (a value no dict of str keys equals)
NoneDict == << <<NoneValue, NoneValue>> >>

\* Python truthiness of an Optional[dict]: None and {} are falsy
DictTruthy(d) == d # NoneDict /\ d # <<>>

Keys(d) == {d[i][1] : i \in 1..Len(d)}

HasKey(d, k) == \E i \in 1..Len(d) : d[i][1] = k

\* d[k], for a key of d
Get(d, k) == d[CHOOSE i \in 1..Len(d) : d[i][1] = k][2]

\* d[k] = v: an existing key keeps its position and takes the new value,
\* a new key is appended
SetItem(d, k, v) ==
    IF HasKey(d, k)
    THEN [i \in 1..Len(d) |-> IF d[i][1] = k THEN <<k, v>> ELSE d[i]]
    ELSE Append(d, <<k, v>>)

\* d.update(other)
RECURSIVE DictUpdate(_, _)
DictUpdate(d, other) ==
    IF other = <<>> THEN d
    ELSE DictUpdate(SetItem(d, other[1][1], other[1][2]), Tail(other))

\* sorted() left out: the items stay in insertion order (a faulty variant of
\* SortedItems)
UnsortedItems(d) == d

\* sorted(d.items()): the keys are distinct, so the order of the (key, value)
\* tuples is the ordinal order of the keys
SortedItems(d) ==
    [i \in 1..Len(d) |->
        d[CHOOSE j \in 1..Len(d) :
            Cardinality({m \in 1..Len(d) : StrLess(d[m][1], d[j][1])}) = i - 1]]

(* ------------------------------------------------------------------ *)
(* RobokassaPayment._generate_signature                                *)
(* ------------------------------------------------------------------ *)

\* hashlib.md5(s.encode()).hexdigest().  MD5 itself is not computed: the
\* digest is stood for by a collision-free function into lowercase
\* hexadecimal strings, the hex encoding of the bytes of s.
md5_hexdigest(s) ==
    [i \in 1..(2 * Len(s)) |->
        LET code == CharCode[s[(i + 1) \div 2]]
        IN IF i % 2 = 1 THEN HexLower[(code \div 16) + 1]
                        ELSE HexLower[(code % 16) + 1]]

\* the invoice id put before the amount (a faulty variant of SignatureParts)
SwappedParts(merchant_login, amount_str, invoice_id, password) ==
    <<merchant_login, invoice_id, amount_str, password>>

\* signature_parts = [merchant_login, amount_str, invoice_id, password]
SignatureParts(merchant_login, amount_str, invoice_id, password) ==
    <<merchant_login, amount_str, invoice_id, password>>

\* the "key=value" segments appended for a truthy extra_params
ExtraParts(extra_params) ==
    IF DictTruthy(extra_params)
    THEN LET sorted_params == SortedItems(extra_params)
         IN [i \in 1..Len(sorted_params) |->
                PyStr(sorted_params[i][1]) \o <<"=">> \o PyStr(sorted_params[i][2])]
    ELSE <<>>

\* The outcome of _generate_signature, with the locals amount_str and
\* signature_string kept beside the returned value.
_generate_signature(merchant_login, sum_amount, invoice_id, password, extra_params) ==
    LET fmt == FormatAmount(sum_amount)
        signature_parts ==
            SignatureParts(merchant_login, fmt.value, invoice_id, password)
            \o ExtraParts(extra_params)
        signature_string == Join(<<":">>, signature_parts)
    IN IF fmt.raised # "none"
       THEN [raised |-> fmt.raised, amount_str |-> <<>>,
             signature_string |-> <<>>, value |-> <<>>]
       ELSE IF \E i \in 1..Len(signature_parts) : ~IsStr(signature_parts[i])
       THEN \* str.join rejects a None item
            [raised |-> "TypeError", amount_str |-> fmt.value,
             signature_string |-> <<>>, value |-> <<>>]
       ELSE [raised |-> "none", amount_str |-> fmt.value,
             signature_string |-> signature_string,
             value |-> md5_hexdigest(signature_string)]

(* ------------------------------------------------------------------ *)
(* urllib.parse.urlencode                                              *)
(* ------------------------------------------------------------------ *)

IsAlnum(c) ==
    LET n == CharCode[c]
    IN (n >= 48 /\ n <= 57) \/ (n >= 65 /\ n <= 90) \/ (n >= 97 /\ n <= 122)

\* quote_plus of one character
QuoteChar(c) ==
    IF IsAlnum(c) \/ c \in {"_", ".", "-", "~"} THEN <<c>>
    ELSE IF c = " " THEN <<"+">>
    ELSE <<"%", HexUpper[(CharCode[c] \div 16) + 1], HexUpper[(CharCode[c] % 16) + 1]>>

\* quote_plus(s)
quote_plus(s) == Concat([i \in 1..Len(s) |-> QuoteChar(s[i])])

\* urlencode(params)
urlencode(params) ==
    Join(<<"&">>,
         [i \in 1..Len(params) |->
            quote_plus(PyStr(params[i][1])) \o <<"=">> \o quote_plus(PyStr(params[i][2]))])

(* ------------------------------------------------------------------ *)
(* RobokassaConfig and RobokassaPayment                                *)
(* ------------------------------------------------------------------ *)

K_MerchantLogin == <<"M", "e", "r", "c", "h", "a", "n", "t", "L", "o", "g", "i", "n">>
K_Sum == <<"S", "u", "m">>
K_InvoiceID == <<"I", "n", "v", "o", "i", "c", "e", "I", "D">>
K_Description == <<"D", "e", "s", "c", "r", "i", "p", "t", "i", "o", "n">>
K_SignatureValue == <<"S", "i", "g", "n", "a", "t", "u", "r", "e", "V", "a", "l", "u", "e">>
K_IsTest == <<"I", "s", "T", "e", "s", "t">>
K_Email == <<"E", "m", "a", "i", "l">>
K_ReturnURL == <<"R", "e", "t", "u", "r", "n", "U", "R", "L">>

ProdUrl == <<"h", "t", "t", "p", "s", ":", "/", "/", "a", "u", "t", "h", ".",
             "r", "o", "b", "o", "k", "a", "s", "s", "a", ".", "r", "u">>
TestUrl == <<"h", "t", "t", "p", "s", ":", "/", "/", "t", "e", "s", "t", ".",
             "r", "o", "b", "o", "k", "a", "s", "s", "a", ".", "r", "u">>
ApiUrl == <<"h", "t", "t", "p", "s", ":", "/", "/", "a", "p", "i", ".",
            "r", "o", "b", "o", "k", "a", "s", "s", "a", ".", "r", "u">>
MerchantPath == <<"/", "M", "e", "r", "c", "h", "a", "n", "t", "/",
                  "I", "n", "d", "e", "x", "?">>
InvalidSignatureMsg == <<"I", "n", "v", "a", "l", "i", "d", " ",
                         "s", "i", "g", "n", "a", "t", "u", "r", "e">>

\* RobokassaConfig.__init__: the fields are stored as given, nothing is
\* validated, and base_url follows test_mode.
RobokassaConfig(merchant_login, password1, password2, test_mode) ==
    [merchant_login |-> merchant_login,
     password1 |-> password1,
     password2 |-> password2,
     test_mode |-> test_mode,
     base_url |-> IF ~test_mode THEN ProdUrl ELSE TestUrl,
     api_url |-> ApiUrl]

\* the outcome of a signature computation that did not take place
NoSignature ==
    [raised |-> "none", amount_str |-> <<>>, signature_string |-> <<>>, value |-> <<>>]

\* if extra_params: params.update(extra_params)
UpdateParams(params, extra_params) ==
    IF DictTruthy(extra_params) THEN DictUpdate(params, extra_params) ELSE params

\* the params dict of get_payment_url, once the signature is computed
PaymentParams(config, invoice_id, amount, description, email, extra_params, return_url, signature) ==
    LET base == << <<K_MerchantLogin, config.merchant_login>>,
                   <<K_Sum, FormatAmount(amount).value>>,
                   <<K_InvoiceID, invoice_id>>,
                   <<K_Description, description>>,
                   <<K_SignatureValue, signature>>,
                   <<K_IsTest, IF config.test_mode THEN <<"1">> ELSE <<"0">> >> >>
        withEmail == IF Truthy(email) THEN Append(base, <<K_Email, email>>) ELSE base
        withReturn == IF Truthy(return_url)
                      THEN Append(withEmail, <<K_ReturnURL, return_url>>)
                      ELSE withEmail
    IN UpdateParams(withReturn, extra_params)

\* RobokassaPayment.get_payment_url: [raised, value, signed], signed being the
\* outcome of its call of _generate_signature
get_payment_url(config, invoice_id, amount, description, email, extra_params, return_url) ==
    LET signed == _generate_signature(config.merchant_login, amount, invoice_id,
                                      config.password1, extra_params)
    IN IF signed.raised # "none"
       THEN [raised |-> signed.raised, value |-> NoneValue, signed |-> signed]
       ELSE [raised |-> "none",
             value |-> config.base_url \o MerchantPath
                       \o urlencode(PaymentParams(config, invoice_id, amount,
                                                  description, email, extra_params,
                                                  return_url, signed.value)),
             signed |-> signed]

\* the received signature compared as it is, without lower() (a faulty variant
\* of CompareSignatures)
CompareExact(signature, expected_signature) == signature = expected_signature

\* signature.lower() == expected_signature.lower()
CompareSignatures(signature, expected_signature) ==
    Lower(signature) = Lower(expected_signature)

\* RobokassaPayment.verify_result_signature: [raised, value, signed]
verify_result_signature(config, sum_amount, invoice_id, signature, extra_params) ==
    LET signed == _generate_signature(config.merchant_login, sum_amount, invoice_id,
                                      config.password2, extra_params)
    IN IF signed.raised # "none"
       THEN [raised |-> signed.raised, value |-> NoneValue, signed |-> signed]
       ELSE IF ~IsStr(signature)
       THEN \* None has no lower()
            [raised |-> "AttributeError", value |-> NoneValue, signed |-> signed]
       ELSE [raised |-> "none",
             value |-> CompareSignatures(signature, signed.value),
             signed |-> signed]

(* ------------------------------------------------------------------ *)
(* RobokassaNotification                                               *)
(* ------------------------------------------------------------------ *)

\* RobokassaNotification.process_result_notification: [raised, value, signed]
process_result_notification(config, sum_amount, invoice_id, signature, extra_params) ==
    LET verified == verify_result_signature(config, sum_amount, invoice_id,
                                            signature, extra_params)
    IN IF verified.raised # "none" THEN verified
       ELSE IF ~verified.value
       THEN [raised |-> "none",
             value |-> [success |-> FALSE,
                        error |-> InvalidSignatureMsg,
                        invoice_id |-> invoice_id],
             signed |-> verified.signed]
       ELSE [raised |-> "none",
             value |-> [success |-> TRUE,
                        invoice_id |-> invoice_id,
                        amount |-> sum_amount,  \* float(sum_amount)
                        extra_params |-> IF DictTruthy(extra_params)
                                         THEN extra_params ELSE <<>>],
             signed |-> verified.signed]

\* the invoice id left out (a faulty variant of get_notification_response)
BareOk(invoice_id) == <<"O", "K">>

\* RobokassaNotification.get_notification_response: f"OK{invoice_id}"
get_notification_response(invoice_id) == <<"O", "K">> \o PyStr(invoice_id)

(* ------------------------------------------------------------------ *)
(* create_order and check_payment_status                               *)
(* ------------------------------------------------------------------ *)

\* What the one outbound request of a call can do: answer with a body that
\* parses, fail to connect, time out, answer with an error status (which
\* raise_for_status raises as HTTPError), or answer with a body that
\* response.json() cannot parse.
HttpOutcomes == {"ok", "ConnectionError", "Timeout", "HTTPError", "JSONDecodeError"}

\* The class response.json() raises for an unparsable body depends on the
\* installed requests, which the repository does not pin: a subclass of
\* RequestException (requests.exceptions.JSONDecodeError) or a plain
\* ValueError (json.JSONDecodeError).
JsonErrorClasses == {"RequestException", "ValueError"}

\* isinstance(e, requests.RequestException)
IsRequestException(outcome, json_error_class) ==
    \/ outcome \in {"ConnectionError", "Timeout", "HTTPError"}
    \/ outcome = "JSONDecodeError" /\ json_error_class = "RequestException"

\* str(e)
ErrorMessage(outcome) ==
    CASE outcome = "ConnectionError" -> <<"C", "o", "n", "n", "e", "c", "t", "i", "o", "n", " ", "r", "e", "f", "u", "s", "e", "d">>
      [] outcome = "Timeout" -> <<"R", "e", "a", "d", " ", "t", "i", "m", "e", "d", " ", "o", "u", "t", ".">>
      [] outcome = "HTTPError" -> <<"5", "0", "0", " ", "S", "e", "r", "v", "e", "r", " ", "E", "r", "r", "o", "r">>
      [] outcome = "JSONDecodeError" -> <<"E", "x", "p", "e", "c", "t", "i", "n", "g", " ", "v", "a", "l", "u", "e">>
      [] OTHER -> <<>>

\* the parsed body of a successful answer
JsonBody == [success |-> TRUE]

\* try: requests.<verb>(...); raise_for_status(); return response.json()
\* except requests.RequestException as e: return {'success': False, 'error': str(e)}
Request(outcome, json_error_class) ==
    IF outcome = "ok" THEN [raised |-> "none", value |-> JsonBody]
    ELSE IF IsRequestException(outcome, json_error_class)
    THEN [raised |-> "none",
          value |-> [success |-> FALSE, error |-> ErrorMessage(outcome)]]
    ELSE [raised |-> json_error_class, value |-> NoneValue]

\* float(amount), evaluated while the payload is built, before the try
FloatRaises(amount) ==
    IF amount.type = "NoneType" THEN "TypeError"
    ELSE IF amount.type = "str" THEN "ValueError"
    ELSE "none"

\* RobokassaPayment.create_order
create_order(config, invoice_id, amount, outcome, json_error_class) ==
    IF FloatRaises(amount) # "none"
    THEN [raised |-> FloatRaises(amount), value |-> NoneValue]
    ELSE Request(outcome, json_error_class)

\* RobokassaPayment.check_payment_status
check_payment_status(config, invoice_id, outcome, json_error_class) ==
    Request(outcome, json_error_class)

(* ------------------------------------------------------------------ *)
(* The caller's side of the round trip: reading a parameter back from  *)
(* the payment URL and parsing the amount the gateway echoes           *)
(* ------------------------------------------------------------------ *)

\* s.split(sep) for a one-character separator
Split(s, sep) ==
    LET at == {i \in 1..Len(s) : s[i] = sep}
        \* the position of the k-th separator; 0 and Len(s) + 1 fence the ends
        cut(k) == IF k = 0 THEN 0
                  ELSE IF k > Cardinality(at) THEN Len(s) + 1
                  ELSE CHOOSE p \in at : Cardinality({q \in at : q < p}) = k - 1
    IN [k \in 1..(Cardinality(at) + 1) |-> SubSeq(s, cut(k - 1) + 1, cut(k) - 1)]

\* the value of a hexadecimal digit
HexValue(c) ==
    (CHOOSE i \in 1..16 : HexUpper[i] = UpperChar(c)) - 1

\* unquote: the pieces between the '%' signs, each but the first led by the
\* two hexadecimal digits of one character
UnquotePieces(pieces) ==
    Concat([k \in 1..Len(pieces) |->
               IF k = 1 THEN pieces[1]
               ELSE IF Len(pieces[k]) >= 2
               THEN <<CodeChar(16 * HexValue(pieces[k][1]) + HexValue(pieces[k][2]))>>
                    \o SubSeq(pieces[k], 3, Len(pieces[k]))
               ELSE <<"%">> \o pieces[k]])

\* urllib.parse.unquote_plus: '+' is a space, then unquote
unquote_plus(s) ==
    UnquotePieces(Split([i \in 1..Len(s) |-> IF s[i] = "+" THEN " " ELSE s[i]], "%"))

\* urllib.parse.parse_qsl of the query of url: the decoded <<key, value>> pairs
ParseQuery(url) ==
    LET query == Split(url, "?")[2]
        pairs == Split(query, "&")
    IN [i \in 1..Len(pairs) |->
          LET kv == Split(pairs[i], "=")
          IN <<unquote_plus(kv[1]), unquote_plus(kv[2])>>]

\* the value of the query parameter key of url
UrlParam(url, key) == Get(ParseQuery(url), key)

IsDigit(c) == CharCode[c] >= 48 /\ CharCode[c] <= 57

RECURSIVE StrToNat(_)
StrToNat(s) ==
    IF s = <<>> THEN 0
    ELSE 10 * StrToNat(SubSeq(s, 1, Len(s) - 1)) + (CharCode[s[Len(s)]] - 48)

\* s is a decimal literal with two fractional digits
IsTwoPlaces(s) ==
    LET body == IF s # <<>> /\ s[1] = "-" THEN Tail(s) ELSE s
    IN /\ Len(body) >= 4
       /\ body[Len(body) - 2] = "."
       /\ \A i \in 1..Len(body) : i # Len(body) - 2 => IsDigit(body[i])

\* Decimal(s) for such a literal
ParseDecimal(s) ==
    LET neg == s[1] = "-"
        body == IF neg THEN Tail(s) ELSE s
        cents == 100 * StrToNat(SubSeq(body, 1, Len(body) - 3))
                 + StrToNat(SubSeq(body, Len(body) - 1, Len(body)))
    IN Dec(IF neg THEN 1 ELSE 0, 10 * cents)

(* ------------------------------------------------------------------ *)
(* Inputs                                                              *)
(* ------------------------------------------------------------------ *)

\* the largest number of entries of an extra_params dict
MaxExtra == 2

shop1 == <<"s", "h", "o", "p", "1">>
pw1 == <<"p", "w", "1">>
pw2 == <<"p", "w", "2">>
shp_a == <<"s", "h", "p", "_", "a">>
shp_b == <<"s", "h", "p", "_", "b">>

\* (merchant_login, password1, password2): complete with distinct secrets,
\* complete with one secret used for both directions, and with one
\* credential empty or None
Credentials ==
    { <<shop1, pw1, pw2>>, <<shop1, pw1, pw1>>,
      <<<<>>, pw1, pw2>>, <<NoneValue, pw1, pw2>>,
      <<shop1, <<>>, pw2>>, <<shop1, pw1, NoneValue>> }

InvoiceIds == { <<"1", "2", "3", "4", "5">>, <<"9", "9", "9">> }

\* 100.00, 100.015 (rounds to 100.02), 0.995 (rounds to 1.00), -0.001
\* (rounds to -0.00), None and a str that is no number
Amounts ==
    { Dec(0, 100000), Dec(0, 100015), Dec(0, 995), Dec(1, 1), NoneAmount, StrAmount }

Descriptions == { <<"T", "e", "s", "t", " ", "P", "a", "y", "m", "e", "n", "t">> }

\* (email, return_url)
Optionals ==
    { <<NoneValue, NoneValue>>,
      <<<<"c", "@", "e", "x", ".", "c", "o", "m">>, NoneValue>>,
      <<<<>>, <<"h", "t", "t", "p", "s", ":", "/", "/", "e", "x", ".", "c", "o", "m", "/", "r">>>> }

\* the entries extra_params is built from: two pass-through parameters and
\* one whose key is a reserved key of the payment URL
ExtraItems ==
    { <<shp_a, <<"1">> >>, <<shp_b, <<"2">> >>, <<K_Sum, <<"9", ".", "9", "9">>>> }

\* the dicts of at most n entries, in every insertion order
RECURSIVE DictsUpTo(_)
DictsUpTo(n) ==
    IF n = 0 THEN {<<>>}
    ELSE LET smaller == DictsUpTo(n - 1)
         IN smaller \cup
            { Append(d, item) : <<d, item>> \in
                { <<d, item>> \in smaller \X ExtraItems :
                    Len(d) = n - 1 /\ ~HasKey(d, item[1]) } }

ExtraParams == {NoneDict} \cup DictsUpTo(MaxExtra)

(* ------------------------------------------------------------------ *)
(* src/handlers/admin_handlers.py: AdminRole, AdminPanel, AdminHandlers *)
(*                                                                      *)
(* An Optional value is a sequence of length 0 (None) or 1.  A log line *)
(* f"[{timestamp}] {message}" is the record of its timestamp and of the *)
(* message's template with the values formatted into it.  A clock value *)
(* stands for what datetime.utcnow() returns.                           *)
(* ------------------------------------------------------------------ *)

\* class AdminRole(Enum): member name -> value
AdminRole == [SUPER_ADMIN |-> 3, ADMIN |-> 2, MODERATOR |-> 1]

\* the member names as the str values AdminRole[...] looks up
RoleSpelling ==
    [SUPER_ADMIN |-> <<"S", "U", "P", "E", "R", "_", "A", "D", "M", "I", "N">>,
     ADMIN |-> <<"A", "D", "M", "I", "N">>,
     MODERATOR |-> <<"M", "O", "D", "E", "R", "A", "T", "O", "R">>]

\* AdminRole[name]: the member of that name, KeyError when there is none
RoleByName(name) ==
    IF \E r \in DOMAIN AdminRole : RoleSpelling[r] = name
    THEN [raised |-> "none", value |-> CHOOSE r \in DOMAIN AdminRole : RoleSpelling[r] = name]
    ELSE [raised |-> "KeyError", value |-> "-"]

None == <<>>

Some(v) == <<v>>

\* the message of a log line: its template and the values formatted into it
Message(template, admin_id, username, role, new_role, action) ==
    [template |-> template, admin_id |-> admin_id, username |-> username,
     role |-> role, new_role |-> new_role, action |-> action]

\* AdminPanel._log
_log(logs_, timestamp, message) ==
    Append(logs_, [timestamp |-> timestamp, message |-> message])

\* dict item assignment d[key] = value
Store(d, key, value) ==
    [k \in DOMAIN d \cup {key} |-> IF k = key THEN value ELSE d[k]]

\* del d[key]
Delete(d, key) == [k \in DOMAIN d \ {key} |-> d[k]]

\* a faulty variant of add_admin: the check for an existing id is missing
AddAdminOverwriting(admins_, logs_, t, admin_id, username, role) ==
    [admins |-> Store(admins_, admin_id,
                      [username |-> username, role |-> role,
                       created_at |-> t, last_action |-> None]),
     logs |-> _log(logs_, t, Message("Admin {username} (ID: {admin_id}) added with role {role.name}",
                                     admin_id, username, role, "-", "-")),
     ret |-> TRUE]

\* AdminPanel.add_admin
add_admin(admins_, logs_, t, admin_id, username, role) ==
    IF admin_id \in DOMAIN admins_
    THEN [admins |-> admins_,
          logs |-> _log(logs_, t, Message("Admin {admin_id} already exists",
                                          admin_id, "-", "-", "-", "-")),
          ret |-> FALSE]
    ELSE [admins |-> Store(admins_, admin_id,
                           [username |-> username, role |-> role,
                            created_at |-> t, last_action |-> None]),
          logs |-> _log(logs_, t, Message("Admin {username} (ID: {admin_id}) added with role {role.name}",
                                          admin_id, username, role, "-", "-")),
          ret |-> TRUE]

\* a faulty variant of remove_admin: the record is not deleted
RemoveAdminKeeping(admins_, logs_, t, admin_id) ==
    IF admin_id \notin DOMAIN admins_
    THEN [admins |-> admins_,
          logs |-> _log(logs_, t, Message("Admin {admin_id} not found",
                                          admin_id, "-", "-", "-", "-")),
          ret |-> FALSE]
    ELSE [admins |-> admins_,
          logs |-> _log(logs_, t, Message("Admin {username} (ID: {admin_id}) removed",
                                          admin_id, admins_[admin_id].username, "-", "-", "-")),
          ret |-> TRUE]

\* AdminPanel.remove_admin
remove_admin(admins_, logs_, t, admin_id) ==
    IF admin_id \notin DOMAIN admins_
    THEN [admins |-> admins_,
          logs |-> _log(logs_, t, Message("Admin {admin_id} not found",
                                          admin_id, "-", "-", "-", "-")),
          ret |-> FALSE]
    ELSE [admins |-> Delete(admins_, admin_id),
          logs |-> _log(logs_, t, Message("Admin {username} (ID: {admin_id}) removed",
                                          admin_id, admins_[admin_id].username, "-", "-", "-")),
          ret |-> TRUE]

\* AdminPanel.update_admin_role
update_admin_role(admins_, logs_, t, admin_id, new_role) ==
    IF admin_id \notin DOMAIN admins_
    THEN [admins |-> admins_,
          logs |-> _log(logs_, t, Message("Admin {admin_id} not found",
                                          admin_id, "-", "-", "-", "-")),
          ret |-> FALSE]
    ELSE [admins |-> Store(admins_, admin_id,
                           [admins_[admin_id] EXCEPT !.role = new_role]),
          logs |-> _log(logs_, t, Message("Admin {admin_id} role updated from {old_role.name} to {new_role.name}",
                                          admin_id, "-", admins_[admin_id].role, new_role, "-")),
          ret |-> TRUE]

\* AdminPanel.record_action
record_action(admins_, logs_, t, admin_id, action) ==
    IF admin_id \notin DOMAIN admins_
    THEN [admins |-> admins_,
          logs |-> _log(logs_, t, Message("Admin {admin_id} not found",
                                          admin_id, "-", "-", "-", "-")),
          ret |-> FALSE]
    ELSE [admins |-> Store(admins_, admin_id,
                           [admins_[admin_id] EXCEPT
                               !.last_action = Some([action |-> action, timestamp |-> t])]),
          logs |-> _log(logs_, t, Message("Admin {admin_id} performed action: {action}",
                                          admin_id, "-", "-", "-", action)),
          ret |-> TRUE]

\* the list slice s[start:] for an int start
SliceFrom(s, start) ==
    LET from == IF start < 0
                THEN (IF Len(s) + start < 0 THEN 0 ELSE Len(s) + start)
                ELSE (IF start > Len(s) THEN Len(s) ELSE start)
    IN  SubSeq(s, from + 1, Len(s))

\* the truth value of an Optional[int]: None and 0 are falsy
LimitTruthy(limit) == limit # None /\ limit[1] # 0

\* AdminPanel.get_logs
get_logs(logs_, limit) ==
    IF LimitTruthy(limit) THEN SliceFrom(logs_, 0 - limit[1]) ELSE logs_

\* a faulty variant of clear_logs: the list is not cleared
ClearLogsKeeping(logs_, t) ==
    _log(logs_, t, Message("Logs cleared", 0, "-", "-", "-", "-"))

\* AdminPanel.clear_logs
clear_logs(logs_, t) ==
    _log(<<>>, t, Message("Logs cleared", 0, "-", "-", "-", "-"))

\* AdminPanel.get_stats
get_stats(admins_, logs_, panel_created_at) ==
    [total_admins |-> Cardinality(DOMAIN admins_),
     role_counts |-> [r \in DOMAIN AdminRole |->
                         Cardinality({i \in DOMAIN admins_ : admins_[i].role = r})],
     panel_created_at |-> panel_created_at,
     total_logs |-> Len(logs_)]

\* AdminHandlers.handle_admin_creation
handle_admin_creation(admins_, logs_, t, admin_id, username, role) ==
    LET role_enum == RoleByName(Upper(role))
        added == add_admin(admins_, logs_, t, admin_id, username, role_enum.value)
    IN  IF role_enum.raised = "KeyError"
        THEN [admins |-> admins_, logs |-> logs_, called |-> FALSE,
              ret |-> [success |-> FALSE, message |-> "Invalid role: {role}",
                       admin_id |-> admin_id]]
        ELSE [admins |-> added.admins, logs |-> added.logs, called |-> TRUE,
              ret |-> [success |-> added.ret,
                       message |-> IF added.ret
                                   THEN "Admin {username} created successfully"
                                   ELSE "Admin already exists",
                       admin_id |-> admin_id]]

\* AdminHandlers.handle_get_logs
handle_get_logs(logs_, limit) ==
    LET got == get_logs(logs_, limit)
    IN  [success |-> TRUE, logs |-> got, total_logs |-> Len(got)]

(* ------------------------------------------------------------------ *)
(* The calls made on the admin panel                                   *)
(* ------------------------------------------------------------------ *)

\* how many calls that read the clock one run of the admin panel makes
MaxCalls == 3

\* the largest magnitude of a limit handed to get_logs
MaxLimit == 1

AdminIds == {1, 2}

Usernames == {"alice", "bob"}

\* the AdminRole members handed to the panel directly; the handlers supply ADMIN
RoleArgs == {"SUPER_ADMIN", "MODERATOR"}

\* the role argument of the handlers, a str in any case; "owner" names no role
RoleTexts == {<<"A", "d", "m", "i", "n">>, <<"o", "w", "n", "e", "r">>}

ActionArgs == {"ban_user"}

\* Optional[int]
Limits == {None} \cup {Some(n) : n \in (0 - MaxLimit)..MaxLimit}

(* ------------------------------------------------------------------ *)
(* State: one caller working with one configuration                    *)
(* ------------------------------------------------------------------ *)

VARIABLES
    pc,       \* "new": nothing constructed; "idle": between calls;
              \* "returned": the call named by op has just ended
    config,   \* the RobokassaConfig the processor and the handler hold
    op,       \* the operation that ended last
    args,     \* its arguments
    result,   \* its outcome: [raised, value]
    signed,   \* the outcome of the call of _generate_signature made inside it
    admins,   \* AdminPanel.admins: admin id -> record
    logs,     \* AdminPanel.logs
    created_at, \* AdminPanel.created_at
    now,      \* the clock datetime.utcnow() reads
    last,     \* the AdminPanel / AdminHandlers call that ended last
    adds_ok,  \* how many calls of add_admin have returned True
    removes_ok \* how many calls of remove_admin have returned True

\* the state of the payment classes
paymentVars == <<pc, config, op, args, result, signed>>

\* the state of the admin panel, with the history kept about it
adminVars == <<admins, logs, created_at, now, last, adds_ok, removes_ok>>

vars == <<pc, config, op, args, result, signed,
          admins, logs, created_at, now, last, adds_ok, removes_ok>>

NoConfig == RobokassaConfig(NoneValue, NoneValue, NoneValue, FALSE)

NoArgs ==
    [invoice_id |-> NoneValue, amount |-> NoneAmount, description |-> NoneValue,
     email |-> NoneValue, extra_params |-> NoneDict, return_url |-> NoneValue,
     signature |-> NoneValue, outcome |-> "none", json_error_class |-> "none",
     roundtrip |-> FALSE, prior |-> "none"]

NoResult == [raised |-> "none", value |-> NoneValue]

\* the record of a call: its name, its arguments and what it returned
Call(name, admin_id, username, role, action, limit, ret) ==
    [op |-> name, admin_id |-> admin_id, username |-> username, role |-> role,
     action |-> action, limit |-> limit, ret |-> ret]

NoCall == Call("none", 0, "-", "-", "-", None, FALSE)

\* admin_handlers = AdminHandlers(): AdminPanel.__init__
AdminPanelInit ==
    /\ admins = <<>>
    /\ logs = <<>>
    /\ created_at = 0
    /\ now = 0
    /\ last = NoCall
    /\ adds_ok = 0
    /\ removes_ok = 0

Init ==
    /\ pc = "new"
    /\ config = NoConfig
    /\ op = "none"
    /\ args = NoArgs
    /\ result = NoResult
    /\ signed = NoSignature
    /\ AdminPanelInit

\* config = RobokassaConfig(...); processor = RobokassaPayment(config);
\* handler = RobokassaNotification(processor)
Construct ==
    /\ pc = "new"
    /\ \E cred \in Credentials, test_mode \in BOOLEAN :
          config' = RobokassaConfig(cred[1], cred[2], cred[3], test_mode)
    /\ pc' = "returned"
    /\ op' = "__init__"
    /\ result' = NoResult
    /\ UNCHANGED <<args, signed>>
    /\ UNCHANGED adminVars

\* the caller goes on to its next call
Return ==
    /\ pc = "returned"
    /\ pc' = "idle"
    /\ op' = "none"
    /\ args' = NoArgs
    /\ result' = NoResult
    /\ signed' = NoSignature
    /\ UNCHANGED config
    /\ UNCHANGED adminVars

\* processor.get_payment_url(invoice_id, amount, description, email,
\*                           extra_params, return_url)
GetPaymentUrl ==
    /\ pc = "idle"
    /\ \E invoice_id \in InvoiceIds, amount \in Amounts,
          description \in Descriptions, opt \in Optionals,
          extra_params \in ExtraParams :
          \E r \in {get_payment_url(config, invoice_id, amount, description,
                                     opt[1], extra_params, opt[2])} :
             /\ args' = [NoArgs EXCEPT !.invoice_id = invoice_id,
                                       !.amount = amount,
                                       !.description = description,
                                       !.email = opt[1],
                                       !.return_url = opt[2],
                                       !.extra_params = extra_params]
             /\ result' = [raised |-> r.raised, value |-> r.value]
             /\ signed' = r.signed
    /\ pc' = "returned"
    /\ op' = "get_payment_url"
    /\ UNCHANGED config
    /\ UNCHANGED adminVars

\* The signatures a notification can carry: the one the gateway computes with
\* the inbound secret, the same in upper case, the one computed with the
\* outbound secret, an unrelated one, and none at all.
ReceivedSignatures(sum_amount, invoice_id, extra_params) ==
    LET inbound == _generate_signature(config.merchant_login, sum_amount,
                                       invoice_id, config.password2, extra_params)
        outbound == _generate_signature(config.merchant_login, sum_amount,
                                        invoice_id, config.password1, extra_params)
    IN {NoneValue, <<"0", "0", "f", "f">>}
       \cup (IF inbound.raised = "none"
             THEN {inbound.value, Upper(inbound.value)} ELSE {})
       \cup (IF outbound.raised = "none" THEN {outbound.value} ELSE {})

\* processor.verify_result_signature(sum_amount, invoice_id, signature, extra_params)
VerifyResultSignature ==
    /\ pc = "idle"
    /\ \E invoice_id \in InvoiceIds, sum_amount \in Amounts,
          extra_params \in ExtraParams :
          \E signature \in ReceivedSignatures(sum_amount, invoice_id, extra_params) :
             \E r \in {verify_result_signature(config, sum_amount, invoice_id,
                                                 signature, extra_params)} :
                /\ args' = [NoArgs EXCEPT !.invoice_id = invoice_id,
                                          !.amount = sum_amount,
                                          !.signature = signature,
                                          !.extra_params = extra_params]
                /\ result' = [raised |-> r.raised, value |-> r.value]
                /\ signed' = r.signed
    /\ pc' = "returned"
    /\ op' = "verify_result_signature"
    /\ UNCHANGED config
    /\ UNCHANGED adminVars

\* The round trip: the caller takes Sum, InvoiceID and SignatureValue out of
\* the URL get_payment_url has just returned and passes them, with the same
\* extra_params, to verify_result_signature.
RoundTrip ==
    /\ pc = "returned"
    /\ op = "get_payment_url"
    /\ result.raised = "none"
    /\ \E query \in {ParseQuery(result.value)} :
       LET invoice_id == Get(query, K_InvoiceID)
           signature == Get(query, K_SignatureValue)
       IN /\ IsTwoPlaces(Get(query, K_Sum))
          /\ \E r \in {verify_result_signature(config,
                            ParseDecimal(Get(query, K_Sum)), invoice_id,
                            signature, args.extra_params)} :
                /\ args' = [NoArgs EXCEPT !.invoice_id = invoice_id,
                                          !.amount = ParseDecimal(Get(query, K_Sum)),
                                          !.signature = signature,
                                          !.extra_params = args.extra_params,
                                          !.roundtrip = TRUE]
                /\ result' = [raised |-> r.raised, value |-> r.value]
                /\ signed' = r.signed
    /\ op' = "verify_result_signature"
    /\ UNCHANGED <<pc, config>>
    /\ UNCHANGED adminVars

\* handler.process_result_notification(sum_amount, invoice_id, signature, extra_params)
ProcessResultNotification ==
    /\ pc = "idle"
    /\ \E invoice_id \in InvoiceIds, sum_amount \in Amounts,
          extra_params \in ExtraParams :
          \E signature \in ReceivedSignatures(sum_amount, invoice_id, extra_params) :
             \E r \in {process_result_notification(config, sum_amount, invoice_id,
                                                     signature, extra_params)} :
                /\ args' = [NoArgs EXCEPT !.invoice_id = invoice_id,
                                          !.amount = sum_amount,
                                          !.signature = signature,
                                          !.extra_params = extra_params]
                /\ result' = [raised |-> r.raised, value |-> r.value]
                /\ signed' = r.signed
    /\ pc' = "returned"
    /\ op' = "process_result_notification"
    /\ UNCHANGED config
    /\ UNCHANGED adminVars

\* how the call that has just ended went, as far as a notification goes
Prior ==
    IF op # "process_result_notification" THEN "none"
    ELSE IF result.raised # "none" THEN "raised"
    ELSE IF result.value.success THEN "verified"
    ELSE "rejected"

\* handler.get_notification_response(invoice_id), called on its own or right
\* after process_result_notification, whatever that call's outcome
GetNotificationResponse ==
    /\ \/ pc = "idle"
       \/ pc = "returned" /\ op = "process_result_notification"
    /\ \E invoice_id \in InvoiceIds :
          /\ args' = [NoArgs EXCEPT !.invoice_id = invoice_id, !.prior = Prior]
          /\ result' = [raised |-> "none",
                        value |-> get_notification_response(invoice_id)]
    /\ signed' = NoSignature
    /\ pc' = "returned"
    /\ op' = "get_notification_response"
    /\ UNCHANGED config
    /\ UNCHANGED adminVars

\* processor.create_order(invoice_id, amount, description, ...)
CreateOrder ==
    /\ pc = "idle"
    /\ \E invoice_id \in InvoiceIds, amount \in Amounts,
          description \in Descriptions, outcome \in HttpOutcomes,
          json_error_class \in JsonErrorClasses :
          /\ args' = [NoArgs EXCEPT !.invoice_id = invoice_id,
                                    !.amount = amount,
                                    !.description = description,
                                    !.outcome = outcome,
                                    !.json_error_class = json_error_class]
          /\ result' = create_order(config, invoice_id, amount, outcome,
                                    json_error_class)
    /\ signed' = NoSignature
    /\ pc' = "returned"
    /\ op' = "create_order"
    /\ UNCHANGED config
    /\ UNCHANGED adminVars

\* processor.check_payment_status(invoice_id)
CheckPaymentStatus ==
    /\ pc = "idle"
    /\ \E invoice_id \in InvoiceIds, outcome \in HttpOutcomes,
          json_error_class \in JsonErrorClasses :
          /\ args' = [NoArgs EXCEPT !.invoice_id = invoice_id,
                                    !.outcome = outcome,
                                    !.json_error_class = json_error_class]
          /\ result' = check_payment_status(config, invoice_id, outcome,
                                            json_error_class)
    /\ signed' = NoSignature
    /\ pc' = "returned"
    /\ op' = "check_payment_status"
    /\ UNCHANGED config
    /\ UNCHANGED adminVars

Next ==
    \/ Construct
    \/ Return
    \/ GetPaymentUrl
    \/ VerifyResultSignature
    \/ RoundTrip
    \/ ProcessResultNotification
    \/ GetNotificationResponse
    \/ CreateOrder
    \/ CheckPaymentStatus

Spec == Init /\ [][Next]_vars

(* ------------------------------------------------------------------ *)
(* The admin panel: one AdminHandlers object and its AdminPanel, called *)
(* through either of them                                               *)
(* ------------------------------------------------------------------ *)

\* panel.add_admin(admin_id, username, role)
AddAdmin ==
    /\ now < MaxCalls
    /\ \E admin_id \in AdminIds, username \in Usernames, role \in RoleArgs :
          \E r \in {add_admin(admins, logs, now + 1, admin_id, username, role)} :
             /\ admins' = r.admins
             /\ logs' = r.logs
             /\ last' = Call("add_admin", admin_id, username, role, "-", None, r.ret)
             /\ adds_ok' = IF r.ret THEN adds_ok + 1 ELSE adds_ok
    /\ now' = now + 1
    /\ UNCHANGED <<created_at, removes_ok>>
    /\ UNCHANGED paymentVars

\* panel.remove_admin(admin_id)
RemoveAdmin ==
    /\ now < MaxCalls
    /\ \E admin_id \in AdminIds :
          \E r \in {remove_admin(admins, logs, now + 1, admin_id)} :
             /\ admins' = r.admins
             /\ logs' = r.logs
             /\ last' = Call("remove_admin", admin_id, "-", "-", "-", None, r.ret)
             /\ removes_ok' = IF r.ret THEN removes_ok + 1 ELSE removes_ok
    /\ now' = now + 1
    /\ UNCHANGED <<created_at, adds_ok>>
    /\ UNCHANGED paymentVars

\* panel.update_admin_role(admin_id, new_role)
UpdateAdminRole ==
    /\ now < MaxCalls
    /\ \E admin_id \in AdminIds, new_role \in RoleArgs :
          \E r \in {update_admin_role(admins, logs, now + 1, admin_id, new_role)} :
             /\ admins' = r.admins
             /\ logs' = r.logs
             /\ last' = Call("update_admin_role", admin_id, "-", new_role, "-", None, r.ret)
    /\ now' = now + 1
    /\ UNCHANGED <<created_at, adds_ok, removes_ok>>
    /\ UNCHANGED paymentVars

\* panel.record_action(admin_id, action)
RecordAction ==
    /\ now < MaxCalls
    /\ \E admin_id \in AdminIds, action \in ActionArgs :
          \E r \in {record_action(admins, logs, now + 1, admin_id, action)} :
             /\ admins' = r.admins
             /\ logs' = r.logs
             /\ last' = Call("record_action", admin_id, "-", "-", action, None, r.ret)
    /\ now' = now + 1
    /\ UNCHANGED <<created_at, adds_ok, removes_ok>>
    /\ UNCHANGED paymentVars

\* panel.get_logs(limit)
GetLogs ==
    /\ \E limit \in Limits :
          last' = Call("get_logs", 0, "-", "-", "-", limit, get_logs(logs, limit))
    /\ UNCHANGED <<admins, logs, created_at, now, adds_ok, removes_ok>>
    /\ UNCHANGED paymentVars

\* panel.clear_logs()
ClearLogs ==
    /\ now < MaxCalls
    /\ logs' = clear_logs(logs, now + 1)
    /\ last' = Call("clear_logs", 0, "-", "-", "-", None, None)
    /\ now' = now + 1
    /\ UNCHANGED <<admins, created_at, adds_ok, removes_ok>>
    /\ UNCHANGED paymentVars

\* panel.get_stats()
GetStats ==
    /\ last' = Call("get_stats", 0, "-", "-", "-", None, get_stats(admins, logs, created_at))
    /\ UNCHANGED <<admins, logs, created_at, now, adds_ok, removes_ok>>
    /\ UNCHANGED paymentVars

\* admin_handlers.handle_admin_creation(admin_id, username, role)
HandleAdminCreation ==
    /\ now < MaxCalls
    /\ \E admin_id \in AdminIds, username \in Usernames, role \in RoleTexts :
          \E r \in {handle_admin_creation(admins, logs, now + 1, admin_id, username, role)} :
             /\ admins' = r.admins
             /\ logs' = r.logs
             /\ last' = Call("handle_admin_creation", admin_id, username, role, "-", None, r.ret)
             /\ adds_ok' = IF r.ret.success THEN adds_ok + 1 ELSE adds_ok
             /\ now' = IF r.called THEN now + 1 ELSE now
    /\ UNCHANGED <<created_at, removes_ok>>
    /\ UNCHANGED paymentVars

\* admin_handlers.handle_get_logs(limit)
HandleGetLogs ==
    /\ \E limit \in Limits :
          last' = Call("handle_get_logs", 0, "-", "-", "-", limit, handle_get_logs(logs, limit))
    /\ UNCHANGED <<admins, logs, created_at, now, adds_ok, removes_ok>>
    /\ UNCHANGED paymentVars

AdminNext ==
    \/ AddAdmin
    \/ RemoveAdmin
    \/ UpdateAdminRole
    \/ RecordAction
    \/ GetLogs
    \/ ClearLogs
    \/ GetStats
    \/ HandleAdminCreation
    \/ HandleGetLogs

AdminSpec == Init /\ [][AdminNext]_vars

(* ------------------------------------------------------------------ *)
(* Claims                                                              *)
(* ------------------------------------------------------------------ *)

\* the three credentials are non-empty strings
CompleteConfig ==
    /\ Truthy(config.merchant_login)
    /\ Truthy(config.password1)
    /\ Truthy(config.password2)

\* the params get_payment_url computes itself, before extra_params is merged
ReservedParams ==
    PaymentParams(config, args.invoice_id, args.amount, args.description,
                  args.email, NoneDict, args.return_url, signed.value)

\* C1: in the URL get_payment_url returns, every reserved query key that
\* extra_params also holds carries the value the builder computed for it,
\* not the value of extra_params.
C1_ReservedTakesPrecedence ==
    (op = "get_payment_url" /\ result.raised = "none"
        /\ DictTruthy(args.extra_params))
    => \A query \in {ParseQuery(result.value)} :
          \A i \in 1..Len(ReservedParams) :
             HasKey(args.extra_params, ReservedParams[i][1])
             => Get(query, ReservedParams[i][1]) = PyStr(ReservedParams[i][2])

\* C2: the amount string get_payment_url feeds into the signature digest is
\* the value of the Sum query parameter of the URL it returns.
C2_DigestAmountIsUrlSum ==
    (op = "get_payment_url" /\ result.raised = "none")
    => signed.amount_str = UrlParam(result.value, K_Sum)

\* C3: with complete credentials, feeding the Sum, InvoiceID and
\* SignatureValue of the returned URL (and the same extra_params) to
\* verify_result_signature yields True when password2 equals password1 and
\* False when the two secrets differ.
C3_RoundTrip ==
    (op = "verify_result_signature" /\ args.roundtrip /\ CompleteConfig)
    => /\ result.raised = "none"
       /\ result.value = (config.password1 = config.password2)

\* C4: with complete credentials and a decimal amount,
\* process_result_notification raises for no received signature, a missing
\* one included, and answers a mismatch with success False and a non-empty
\* error.
C4_NeverRaises ==
    (op = "process_result_notification" /\ CompleteConfig
        /\ args.amount.type = "Decimal")
    => /\ result.raised = "none"
       /\ \A expected \in {_generate_signature(config.merchant_login, args.amount,
                              args.invoice_id, config.password2,
                              args.extra_params).value} :
             (~IsStr(args.signature) \/ Lower(args.signature) # expected)
             => /\ result.value.success = FALSE
                /\ result.value.error # <<>>

\* C5: constructing the configuration with an empty or None merchant login
\* or secret fails with ValidationError, a malformed amount makes the
\* signature computation fail with ValidationError, and so no signature is
\* ever produced from a malformed amount or missing credentials.
C5_FailsFast ==
    /\ (op = "__init__" /\ ~CompleteConfig) => result.raised = "ValidationError"
    /\ (op \in {"get_payment_url", "verify_result_signature",
                "process_result_notification"}
           /\ args.amount.type # "Decimal")
       => result.raised = "ValidationError"
    /\ (signed # NoSignature /\ signed.raised = "none")
       => (CompleteConfig /\ args.amount.type = "Decimal")

\* the secret the call that has just ended signs with
UsedPassword ==
    IF op = "get_payment_url" THEN config.password1 ELSE config.password2

\* the call that has just ended computed a signature
Signed ==
    /\ op \in {"get_payment_url", "verify_result_signature",
               "process_result_notification"}
    /\ signed.raised = "none"

\* d and e hold the same key/value pairs
SameEntries(d, e) ==
    /\ Len(d) = Len(e)
    /\ {d[i] : i \in 1..Len(d)} = {e[i] : i \in 1..Len(e)}

\* C6: the signature a call computed is the signature _generate_signature
\* returns for every extra_params holding the same key/value pairs in another
\* insertion order.
C6_OrderIndependent ==
    (Signed /\ DictTruthy(args.extra_params))
    => \A e \in DictsUpTo(MaxExtra) :
          SameEntries(args.extra_params, e)
          => _generate_signature(config.merchant_login, args.amount,
                                 args.invoice_id, UsedPassword, e).value
             = signed.value

\* a signature was computed from two entries inserted in descending key order
C6_Witness ==
    /\ Signed
    /\ args.extra_params = << <<shp_b, <<"2">> >>, <<shp_a, <<"1">> >> >>

\* C7: create_order and check_payment_status raise nothing, whatever the
\* arguments and whatever the outbound request does, and answer every failure
\* of the request with success False and a non-empty error.
C7_NeverRaises ==
    op \in {"create_order", "check_payment_status"}
    => /\ result.raised = "none"
       /\ args.outcome # "ok"
          => /\ result.value.success = FALSE
             /\ result.value.error # <<>>

\* the ":key=value" segments of a set of entries, the smallest key first
RECURSIVE SegmentsAscending(_)
SegmentsAscending(entries) ==
    IF entries = {} THEN <<>>
    ELSE LET first == CHOOSE e \in entries :
                         \A f \in entries \ {e} : StrLess(e[1], f[1])
         IN <<":">> \o first[1] \o <<"=">> \o first[2]
            \o SegmentsAscending(entries \ {first})

\* s is amount written with two fractional digits: its sign, and the
\* hundredths nearest to it
IsAmountToTwoPlaces(s, amount) ==
    /\ IsTwoPlaces(s)
    /\ \A d \in {ParseDecimal(s)} :
          /\ d.sign = amount.sign
          /\ d.mills - amount.mills <= 5
          /\ amount.mills - d.mills <= 5

\* C8: the string a call hashes is the merchant login, the amount with two
\* fractional digits, the invoice id and the secret joined by ':', followed
\* for a non-empty extra_params by one ':key=value' segment per entry in
\* ascending key order; for (shop1, 100.00, 12345, pw1) and no extra
\* parameters it is 'shop1:100.00:12345:pw1'.
C8_HashedString ==
    Signed
    => /\ IsAmountToTwoPlaces(signed.amount_str, args.amount)
       /\ signed.signature_string =
             config.merchant_login \o <<":">> \o signed.amount_str \o <<":">>
             \o args.invoice_id \o <<":">> \o UsedPassword
             \o (IF DictTruthy(args.extra_params)
                 THEN SegmentsAscending({args.extra_params[i] :
                                            i \in 1..Len(args.extra_params)})
                 ELSE <<>>)
       /\ (/\ config.merchant_login = shop1
           /\ args.amount = Dec(0, 100000)
           /\ args.invoice_id = <<"1", "2", "3", "4", "5">>
           /\ UsedPassword = pw1
           /\ ~DictTruthy(args.extra_params))
          => signed.signature_string = <<"s", "h", "o", "p", "1", ":", "1", "0", "0", ".", "0", "0", ":", "1", "2", "3", "4", "5", ":", "p", "w", "1">>

\* the example's inputs were signed together with two extra parameters that
\* were inserted in descending key order
C8_Witness ==
    /\ Signed
    /\ config.merchant_login = shop1
    /\ args.amount = Dec(0, 100000)
    /\ args.invoice_id = <<"1", "2", "3", "4", "5">>
    /\ UsedPassword = pw1
    /\ args.extra_params = << <<shp_b, <<"2">> >>, <<shp_a, <<"1">> >> >>
    /\ signed.signature_string =
          <<"s", "h", "o", "p", "1", ":", "1", "0", "0", ".", "0", "0", ":", "1", "2", "3", "4", "5", ":", "p", "w", "1">>
          \o <<":", "s", "h", "p", "_", "a", "=", "1", ":", "s", "h", "p", "_", "b", "=", "2">>

\* a and b are equal up to the case of their letters
EqualIgnoringCase(a, b) ==
    /\ Len(a) = Len(b)
    /\ \A i \in 1..Len(a) :
          \/ a[i] = b[i]
          \/ /\ CharCode[a[i]] - CharCode[b[i]] \in {32, 0 - 32}
             /\ \A c \in {a[i], b[i]} :
                   \/ (CharCode[c] >= 65 /\ CharCode[c] <= 90)
                   \/ (CharCode[c] >= 97 /\ CharCode[c] <= 122)

\* C9: for a received signature that is a string, verify_result_signature
\* returns True exactly when it equals, up to letter case, the signature
\* recomputed from the configured merchant login, the given amount, invoice id
\* and extra_params with password2, and False otherwise.
C9_VerifyIffEqualIgnoringCase ==
    (op = "verify_result_signature" /\ IsStr(args.signature))
    => \A expected \in {_generate_signature(config.merchant_login, args.amount,
                           args.invoice_id, config.password2, args.extra_params)} :
          expected.raised = "none"
          => /\ result.raised = "none"
             /\ result.value = EqualIgnoringCase(args.signature, expected.value)

\* a signature received in upper case was accepted
C9_Witness ==
    /\ op = "verify_result_signature"
    /\ IsStr(args.signature)
    /\ args.signature # Lower(args.signature)
    /\ result.raised = "none"
    /\ result.value = TRUE

\* C10: get_notification_response returns 'OK' immediately followed by the
\* invoice id, whatever call came before it and however that call ended;
\* for '999' it returns 'OK999'.
C10_Acknowledgement ==
    op = "get_notification_response"
    => /\ result.raised = "none"
       /\ result.value = <<"O", "K">> \o args.invoice_id
       /\ args.invoice_id = <<"9", "9", "9">> => result.value = <<"O", "K", "9", "9", "9">>

\* 'OK999' was returned right after a notification was rejected
C10_Witness ==
    /\ op = "get_notification_response"
    /\ args.prior = "rejected"
    /\ args.invoice_id = <<"9", "9", "9">>
    /\ result.value = <<"O", "K", "9", "9", "9">>

(* ------------------------------------------------------------------ *)
(* Claims about the admin panel                                        *)
(* ------------------------------------------------------------------ *)

\* s is made of the last Len(s) elements of t, in t's order
IsTail(s, t) ==
    /\ Len(s) <= Len(t)
    /\ s = SubSeq(t, Len(t) - Len(s) + 1, Len(t))

\* what the claim lets get_logs(limit) return when the log list is logs_;
\* no list has fewer than 0 entries, so a negative limit allows none
WithinLimit(got, logs_, limit) ==
    IF limit = None
    THEN got = logs_
    ELSE /\ Len(got) <= (IF limit[1] < 0 THEN 0 ELSE limit[1])
         /\ IsTail(got, logs_)

\* C11: get_logs(limit) with any integer limit, 0 and negative values
\* included, returns at most limit entries, and these are the most recent
\* log entries in their original order; get_logs(None) returns all entries.
\* handle_get_logs hands the same list on and counts it.
C11_GetLogsAtMostLimit ==
    /\ last.op = "get_logs" => WithinLimit(last.ret, logs, last.limit)
    /\ last.op = "handle_get_logs" =>
          /\ WithinLimit(last.ret.logs, logs, last.limit)
          /\ last.ret.total_logs = Len(last.ret.logs)

\* C12 as stated: in the state right after clear_logs returns the log list
\* is empty: get_logs() returns no entries and get_stats reports
\* total_logs 0.
C12_LogsEmptyAfterClear ==
    last.op = "clear_logs" =>
       /\ logs = <<>>
       /\ get_logs(logs, None) = <<>>
       /\ get_stats(admins, logs, created_at).total_logs = 0

\* C12, amended: in the state right after clear_logs returns, after any
\* preceding sequence of operations, every earlier entry is gone and the
\* log list holds exactly one entry, the "Logs cleared" line that
\* clear_logs writes about itself: get_logs() returns that one entry and
\* get_stats reports total_logs 1.
C12_OnlyClearedLineAfterClear ==
    last.op = "clear_logs" =>
       /\ Len(logs) = 1
       /\ logs[1].message.template = "Logs cleared"
       /\ logs[1].timestamp = now
       /\ get_logs(logs, None) = logs
       /\ get_stats(admins, logs, created_at).total_logs = 1

\* clear_logs has returned on a panel that had logged the adding of an
\* admin and one more call before
C12_Witness ==
    /\ last.op = "clear_logs"
    /\ adds_ok >= 1
    /\ now = MaxCalls

\* what the claim says of one call of add_admin(admin_id, ...) that
\* returned added, on the dict before and after it
AddedOnlyIfNew(before, after, admin_id, added) ==
    /\ added = (admin_id \notin DOMAIN before)
    /\ admin_id \in DOMAIN before => after = before
    /\ \A i \in DOMAIN before : i \in DOMAIN after /\ after[i] = before[i]

\* C13: add_admin returns True exactly when the admin id is not yet
\* registered; when the id is already registered it returns False and the
\* stored record of that id (username, role, created_at, last_action) and
\* every other record are left unchanged, so no call of add_admin, made
\* directly or through handle_admin_creation, overwrites an existing admin.
C13_AddAdminNeverOverwrites ==
    [][ /\ (last'.op = "add_admin" /\ now' # now) =>
              AddedOnlyIfNew(admins, admins', last'.admin_id, last'.ret)
        /\ (last'.op = "handle_admin_creation" /\ now' # now) =>
              AddedOnlyIfNew(admins, admins', last'.admin_id, last'.ret.success)
      ]_vars

\* add_admin was called for a registered id with another username and
\* another role than the stored ones, and returned False
C13_Witness ==
    /\ last.op = "add_admin"
    /\ last.ret = FALSE
    /\ last.admin_id \in DOMAIN admins
    /\ admins[last.admin_id].username # last.username
    /\ admins[last.admin_id].role # last.role
    /\ admins[last.admin_id].created_at < now

\* total_admins of the statistics get_stats would report now
TotalAdmins == get_stats(admins, logs, created_at).total_admins

\* the sum of the three role_counts of the statistics get_stats would report now
RoleCountSum ==
    LET role_counts == get_stats(admins, logs, created_at).role_counts
    IN  role_counts.SUPER_ADMIN + role_counts.ADMIN + role_counts.MODERATOR

\* C14: after any sequence of add_admin, remove_admin, update_admin_role
\* and record_action calls, get_stats reports a total_admins equal to the
\* sum of the three role_counts, and equal to the number of add_admin calls
\* that returned True minus the number of remove_admin calls that returned
\* True; update_admin_role and record_action never change total_admins.
C14_TotalAdmins ==
    /\ [](/\ TotalAdmins = RoleCountSum
          /\ TotalAdmins = adds_ok - removes_ok
          /\ last.op = "get_stats" =>
                /\ last.ret.total_admins = TotalAdmins
                /\ last.ret.role_counts = get_stats(admins, logs, created_at).role_counts)
    /\ [][ last'.op \in {"update_admin_role", "record_action"} =>
              TotalAdmins' = TotalAdmins ]_vars

\* get_stats reports one admin after two were added and one was removed
C14_Witness ==
    /\ last.op = "get_stats"
    /\ last.ret.total_admins = 1
    /\ adds_ok = 2
    /\ removes_ok = 1

====
